---- MODULE Spec2Model ----
(***************************************************************************)
(* Smart Restaurant API: the document store (collections menuitem, order,  *)
(* paymentrecord), the adapter helpers of database.py and the HTTP         *)
(* handlers of main.py that read and write them.                           *)
(*                                                                         *)
(* Modelling conventions                                                   *)
(*   - An identifier string is a natural number: 0 is a string that is not *)
(*     a well-formed ObjectId (bson raises InvalidId on it), n >= 1 is a   *)
(*     well-formed one.  The store assigns 1, 2, 3, ... per collection.    *)
(*   - Money is an integer number of thousandths of the currency unit, so  *)
(*     that rounding to 2 decimals is a real operation (Round2).           *)
(*   - A name is a natural number standing for its rank in string order.   *)
(*   - Optional[T] is a sequence of length 0 (None) or 1 (Some).           *)
(*   - Timestamps are the store's millisecond clock, variable now.         *)
(*   - description, image_url, notes, currency and created_at are written  *)
(*     once and read by no handler modelled here; they are left out.       *)
(*   - The store is configured (db is not None) throughout.                *)
(*   - last is the last exchange with a client: the handler, the request   *)
(*     (req), the HTTP status (code) and the response (body).              *)
(***************************************************************************)
EXTENDS Integers, Sequences, FiniteSets, TLC

VARIABLES menuitem, order, paymentrecord, now, last

vars == <<menuitem, order, paymentrecord, now, last>>

\* ---------------------------------------------------------------- bounds
MaxMenu == 2
MaxOrders == 2
MaxLines == 2
MaxTime == 1

\* ------------------------------------------------------------ value sets
None == <<>>
Some(x) == <<x>>

BadId == 0

Prices == {1004, 75500}
Names == {1, 2}
Categories == {None, Some(""), Some("mains")}
Quantities == {1, 2}
TableIds == {"T1"}
PaymentMethods == {"online", "cash"}
OrderStatuses == {"pending", "preparing", "served", "completed", "cancelled"}
PaymentOutcomes == {"succeeded", "failed"}
Faults == {"none", "order_write", "payment_write"}

SeqsUpTo(S, n) == UNION {[1..k -> S] : k \in 0..n}

\* ------------------------------------------------------------- utilities
\* round(x, 2) on a non-negative amount held in thousandths: to the nearest
\* multiple of 10, an exact tie going to the even hundredth.
Round2_truncating(x) == 10 * (x \div 10)

Round2(x) ==
    LET q == x \div 10
        r == x % 10
    IN  10 * (IF r > 5 \/ (r = 5 /\ q % 2 = 1) THEN q + 1 ELSE q)

\* ObjectId(id_str) succeeds
to_object_id_ok(id) == id # BadId

\* -------------------------------------------------------------- adapter
\* create_document: stamps the document and appends it; the new id is the
\* new length of the collection.
create_document(coll, data) ==
    Append(coll, [updated_at |-> now] @@ data)

\* $set: a merge of the given fields into the document
Merged(doc, data) ==
    [k \in (DOMAIN doc) \cup (DOMAIN data) |->
        IF k \in DOMAIN data THEN data[k] ELSE doc[k]]

\* update_document: the collection after update_one
\* the update applied with a filter that matches every document
update_document_unfiltered(coll, id, update_data) ==
    IF id \in DOMAIN coll
    THEN [i \in DOMAIN coll |-> Merged(coll[i], [updated_at |-> now] @@ update_data)]
    ELSE coll

update_document(coll, id, update_data) ==
    IF id \in DOMAIN coll
    THEN [coll EXCEPT ![id] = Merged(coll[id], [updated_at |-> now] @@ update_data)]
    ELSE coll

\* update_document's return value, result.modified_count > 0: a document
\* matched and the $set changed at least one of its fields.
update_modified(coll, id, update_data) ==
    update_document(coll, id, update_data) # coll

\* get_document_by_id: Some(doc) or None
get_document_by_id(coll, id) ==
    IF id \in DOMAIN coll THEN Some(coll[id]) ELSE None

\* serialize_doc: the document with its identifier as a string
serialize_doc(coll, id) == [_id |-> id] @@ coll[id]

\* A filter {field: value, ...} matches the documents holding those values.
Matches(doc, filter_dict) ==
    \A k \in DOMAIN filter_dict : k \in DOMAIN doc /\ doc[k] = filter_dict[k]

\* get_documents with sort=[(key, 1)]: the possible results, one for each
\* order the store may give to documents whose keys are equal.
get_documents(coll, filter_dict, key) ==
    LET hit == {i \in DOMAIN coll : Matches(coll[i], filter_dict)}
        orders == {s \in [1..Cardinality(hit) -> hit] :
                      /\ \A i, j \in DOMAIN s : i # j => s[i] # s[j]
                      /\ \A i, j \in DOMAIN s :
                            i < j => coll[s[i]][key] <= coll[s[j]][key]}
    IN  {[i \in DOMAIN s |-> serialize_doc(coll, s[i])] : s \in orders}

\* ------------------------------------------------------------------ Init
Init ==
    /\ menuitem = <<>>
    /\ order = <<>>
    /\ paymentrecord = <<>>
    /\ now = 0
    /\ last = [op |-> "none", req |-> None, code |-> 0, body |-> None]

\* The store's clock advances between requests (or does not: two requests
\* may be served within one millisecond).
Tick ==
    /\ now < MaxTime
    /\ now' = now + 1
    /\ UNCHANGED <<menuitem, order, paymentrecord, last>>

\* ---------------------------------------------------------- menu handlers
create_menu_item(payload) ==
    /\ menuitem' = create_document(menuitem, payload)
    /\ last' = [op |-> "create_menu_item", req |-> payload, code |-> 200,
                body |-> Len(menuitem) + 1]
    /\ UNCHANGED <<order, paymentrecord, now>>

\* MenuUpdate: every field optional; the handler keeps the fields that are
\* not None.  category is Optional in the stored document as well.
MenuUpdateData(payload) ==
    [k \in {f \in DOMAIN payload : payload[f] # None} |->
        IF k = "category" THEN payload[k] ELSE payload[k][1]]

\* update_menu_item that also rewrites the lines of the stored orders that
\* reference the item, at the new price
Repriced(ord, item_id, price) ==
    [i \in DOMAIN ord |->
        [ord[i] EXCEPT !.items =
            [k \in DOMAIN ord[i].items |->
                IF ord[i].items[k].item_id = item_id
                THEN [ord[i].items[k] EXCEPT
                        !.price = price,
                        !.line_total = price * ord[i].items[k].quantity]
                ELSE ord[i].items[k]]]]

update_menu_item_repricing(item_id, payload) ==
    IF ~to_object_id_ok(item_id)
    THEN /\ last' = [op |-> "update_menu_item",
                     req |-> [item_id |-> item_id],
                     code |-> 500,
                     body |-> "InvalidId"]
         /\ UNCHANGED <<menuitem, order, paymentrecord, now>>
    ELSE LET data == MenuUpdateData(payload)
             ok == update_modified(menuitem, item_id, data)
         IN  /\ menuitem' = update_document(menuitem, item_id, data)
             /\ order' = IF ok /\ payload.price # None
                         THEN Repriced(order, item_id, payload.price[1])
                         ELSE order
             /\ last' = [op |-> "update_menu_item",
                         req |-> [item_id |-> item_id],
                         code |-> IF ok THEN 200 ELSE 404,
                         body |-> IF ok THEN "success" ELSE "Menu item not found"]
             /\ UNCHANGED <<paymentrecord, now>>

update_menu_item(item_id, payload) ==
    IF ~to_object_id_ok(item_id)
    THEN /\ last' = [op |-> "update_menu_item",
                     req |-> [item_id |-> item_id],
                     code |-> 500,
                     body |-> "InvalidId"]
         /\ UNCHANGED <<menuitem, order, paymentrecord, now>>
    ELSE LET data == MenuUpdateData(payload)
             ok == update_modified(menuitem, item_id, data)
         IN  /\ menuitem' = update_document(menuitem, item_id, data)
             /\ last' = [op |-> "update_menu_item",
                         req |-> [item_id |-> item_id],
                         code |-> IF ok THEN 200 ELSE 404,
                         body |-> IF ok THEN "success" ELSE "Menu item not found"]
             /\ UNCHANGED <<order, paymentrecord, now>>

\* if category: an absent and an empty category are both falsy
Truthy(category) == category # None /\ category[1] # ""

\* the listing without the availability filter
list_menu_filter_any_availability(category) ==
    IF Truthy(category) THEN [category |-> category] ELSE << >>

list_menu_filter(category) ==
    IF Truthy(category)
    THEN [is_available |-> TRUE, category |-> category]
    ELSE [is_available |-> TRUE]

list_menu(category) ==
    /\ \E items \in get_documents(menuitem, list_menu_filter(category), "name") :
          last' = [op |-> "list_menu", req |-> category, code |-> 200,
                   body |-> items]
    /\ UNCHANGED <<menuitem, order, paymentrecord, now>>

\* --------------------------------------------------------- order handlers
OrderItemIn(ids) == [item_id : ids, quantity : Quantities]

OrderCreateInputs(ids) ==
    [table_id : TableIds, items : SeqsUpTo(OrderItemIn(ids), MaxLines),
     payment_method : PaymentMethods]

\* line_total = price * it.quantity
line_total(price, quantity) == price * quantity

\* price_map / name_map: the requested ids the $in query finds
price_map(items) ==
    [i \in {items[k].item_id : k \in DOMAIN items} \cap DOMAIN menuitem |->
        menuitem[i].price]

name_map(items) ==
    [i \in {items[k].item_id : k \in DOMAIN items} \cap DOMAIN menuitem |->
        menuitem[i].name]

\* The pricing loop over payload.items, in input order.  acc is the loop's
\* state: the lines appended so far, the running subtotal, and the id the
\* loop stopped at (None while it runs).
RECURSIVE pricing_loop(_, _, _, _)
pricing_loop(items, prices, names, acc) ==
    IF items = <<>> THEN acc
    ELSE LET it == Head(items)
         IN  IF it.item_id \notin DOMAIN prices
             THEN [acc EXCEPT !.invalid = Some(it.item_id)]
             ELSE LET price == prices[it.item_id]
                      lt == line_total(price, it.quantity)
                  IN  pricing_loop(Tail(items), prices, names,
                        [invalid |-> None,
                         subtotal |-> acc.subtotal + lt,
                         order_items |-> Append(acc.order_items,
                            [item_id |-> it.item_id,
                             name |-> names[it.item_id],
                             price |-> price,
                             quantity |-> it.quantity,
                             line_total |-> lt])])

\* payment_status seeded as "pending" whatever the method
order_doc_always_pending(payload, priced) ==
    [table_id |-> payload.table_id,
     items |-> priced.order_items,
     subtotal |-> Round2(priced.subtotal),
     payment_method |-> payload.payment_method,
     status |-> "pending",
     payment_status |-> "pending"]

order_doc(payload, priced) ==
    [table_id |-> payload.table_id,
     items |-> priced.order_items,
     subtotal |-> Round2(priced.subtotal),
     payment_method |-> payload.payment_method,
     status |-> "pending",
     payment_status |-> IF payload.payment_method = "cash" THEN "unpaid" ELSE "pending"]

\* the record written with the id of the order before
payment_doc_previous_order(order_id, priced) ==
    [order_id |-> order_id - 1,
     provider |-> "mock",
     amount |-> Round2(priced.subtotal),
     status |-> "pending",
     transaction_id |-> None]

payment_doc(order_id, priced) ==
    [order_id |-> order_id,
     provider |-> "mock",
     amount |-> Round2(priced.subtotal),
     status |-> "pending",
     transaction_id |-> None]

\* if payload.payment_method == "online": a payment record is to be written
wants_payment_record_always(payload) == TRUE

wants_payment_record(payload) == payload.payment_method = "online"

\* fault: where the store fails the request, if it does ("order_write": the
\* insert of the order raises; "payment_write": the insert of the payment
\* record raises, or the process dies between the two inserts).
\* last.req is the payload once the order document is written, and None
\* for a request that ends before any write.
create_order(payload, fault) ==
    LET ids == {payload.items[k].item_id : k \in DOMAIN payload.items}
        priced == pricing_loop(payload.items, price_map(payload.items),
                               name_map(payload.items),
                               [invalid |-> None, subtotal |-> 0, order_items |-> <<>>])
        order_id == Len(order) + 1
        payment == payment_doc(order_id, priced)
    IN  /\ UNCHANGED <<menuitem, now>>
        /\ IF \E i \in ids : ~to_object_id_ok(i)
           THEN /\ last' = [op |-> "create_order", req |-> None, code |-> 500,
                            body |-> "InvalidId"]
                /\ UNCHANGED <<order, paymentrecord>>
           ELSE IF priced.invalid # None
           THEN /\ last' = [op |-> "create_order", req |-> None, code |-> 400,
                            body |-> priced.invalid[1]]
                /\ UNCHANGED <<order, paymentrecord>>
           ELSE IF fault = "order_write"
           THEN /\ last' = [op |-> "create_order", req |-> None, code |-> 500,
                            body |-> "StoreError"]
                /\ UNCHANGED <<order, paymentrecord>>
           ELSE /\ order' = create_document(order, order_doc(payload, priced))
                /\ IF wants_payment_record(payload)
                   THEN IF fault = "payment_write"
                        THEN /\ paymentrecord' = paymentrecord
                             /\ last' = [op |-> "create_order", req |-> payload,
                                         code |-> 500, body |-> "StoreError"]
                        ELSE /\ paymentrecord' = create_document(paymentrecord, payment)
                             /\ last' = [op |-> "create_order", req |-> payload,
                                         code |-> 200,
                                         body |-> [order_id |-> order_id,
                                                   subtotal |-> Round2(priced.subtotal),
                                                   payment |-> Some([id |-> Len(paymentrecord) + 1] @@ payment)]]
                   ELSE /\ paymentrecord' = paymentrecord
                        /\ last' = [op |-> "create_order", req |-> payload,
                                    code |-> 200,
                                    body |-> [order_id |-> order_id,
                                              subtotal |-> Round2(priced.subtotal),
                                              payment |-> None]]

set_order_status(order_id, status) ==
    LET req == [order_id |-> order_id, status |-> status]
    IN  IF ~to_object_id_ok(order_id)
        THEN /\ last' = [op |-> "set_order_status", req |-> req, code |-> 500,
                         body |-> "InvalidId"]
             /\ UNCHANGED <<menuitem, order, paymentrecord, now>>
        ELSE LET ok == update_modified(order, order_id, [status |-> status])
             IN  /\ order' = update_document(order, order_id, [status |-> status])
                 /\ last' = [op |-> "set_order_status", req |-> req,
                             code |-> IF ok THEN 200 ELSE 404,
                             body |-> IF ok THEN "success" ELSE "Order not found"]
                 /\ UNCHANGED <<menuitem, paymentrecord, now>>

\* The payment_status confirm_mock_payment writes for an outcome
confirmed_payment_status_always_paid(status) == "paid"

confirmed_payment_status(status) ==
    IF status = "succeeded" THEN "paid" ELSE "failed"

confirm_mock_payment(order_id, status) ==
    LET req == [order_id |-> order_id, status |-> status]
    IN  IF ~to_object_id_ok(order_id)
        THEN /\ last' = [op |-> "confirm_mock_payment", req |-> req, code |-> 500,
                         body |-> "InvalidId"]
             /\ UNCHANGED <<menuitem, order, paymentrecord, now>>
        ELSE IF get_document_by_id(order, order_id) = None
        THEN /\ last' = [op |-> "confirm_mock_payment", req |-> req, code |-> 404,
                         body |-> "Order not found"]
             /\ UNCHANGED <<menuitem, order, paymentrecord, now>>
        ELSE /\ order' = update_document(order, order_id,
                            [payment_status |-> confirmed_payment_status(status)])
             /\ last' = [op |-> "confirm_mock_payment", req |-> req, code |-> 200,
                         body |-> confirmed_payment_status(status)]
             /\ UNCHANGED <<menuitem, paymentrecord, now>>

\* ------------------------------------------------------- specifications
\* The identifiers a client may send: the malformed one, every identifier
\* the store can assign, and a well-formed one it never assigns.
ItemIdInputs == 0..(MaxMenu + 1)
OrderIdInputs == 0..(MaxOrders + 1)

\* The collections grow without limit in the code; the specifications stop
\* creating documents at MaxMenu menu items and MaxOrders orders.
MenuFull == Len(menuitem) >= MaxMenu
OrdersFull == Len(order) >= MaxOrders

OneItemMenuInputs ==
    [name : {1}, price : {1004}, category : {Some("mains")}, is_available : {TRUE}]

PriceUpdateInputs ==
    [name : {None}, price : {None} \cup {Some(p) : p \in Prices},
     category : {None}, is_available : {None}]

OneLineOrderInputs ==
    [table_id : TableIds, items : {<<[item_id |-> 1, quantity |-> 2]>>},
     payment_method : PaymentMethods]

\* Spec: every handler that writes, on a menu whose first item changes
\* price and orders of one line; statuses move among three values.
Next ==
    \/ Tick
    \/ \E payload \in OneItemMenuInputs :
          ~MenuFull /\ create_menu_item(payload)
    \/ \E item_id \in {1}, payload \in PriceUpdateInputs :
          update_menu_item(item_id, payload)
    \/ \E payload \in OneLineOrderInputs, fault \in {"none", "payment_write"} :
          ~OrdersFull /\ create_order(payload, fault)
    \/ \E order_id \in 1..MaxOrders, status \in {"preparing", "cancelled"} :
          set_order_status(order_id, status)
    \/ \E order_id \in 1..MaxOrders, status \in {"succeeded"} :
          confirm_mock_payment(order_id, status)

Spec == Init /\ [][Next]_vars

\* TransitionSpec: the status and payment transitions over every status,
\* outcome and order id, on orders of one line.
NextTransition ==
    \/ Tick
    \/ \E payload \in OneItemMenuInputs :
          menuitem = <<>> /\ create_menu_item(payload)
    \/ \E payload \in OneLineOrderInputs, fault \in {"none"} :
          ~OrdersFull /\ create_order(payload, fault)
    \/ \E order_id \in OrderIdInputs, status \in OrderStatuses :
          set_order_status(order_id, status)
    \/ \E order_id \in OrderIdInputs, status \in PaymentOutcomes :
          confirm_mock_payment(order_id, status)

TransitionSpec == Init /\ [][NextTransition]_vars

\* PricingSpec: order creation over every request of up to MaxLines lines
\* and every fault, against a menu whose first item changes price.
PricedMenuInputs ==
    [name : {2}, price : {75500}, category : {None}, is_available : {TRUE}]

NextPricing ==
    \/ \E payload \in PricedMenuInputs :
          ~MenuFull /\ create_menu_item(payload)
    \/ \E item_id \in {1}, payload \in PriceUpdateInputs :
          update_menu_item(item_id, payload)
    \/ \E payload \in OrderCreateInputs(ItemIdInputs), fault \in Faults :
          ~OrdersFull /\ create_order(payload, fault)

PricingSpec == Init /\ [][NextPricing]_vars

\* MenuSpec: the menu handlers over every name, category and availability.
MenuItemInputs ==
    [name : Names, price : {1004}, category : Categories, is_available : BOOLEAN]

MenuEditInputs ==
    [name : {None} \cup {Some(n) : n \in Names}, price : {None},
     category : Categories, is_available : {None, Some(TRUE), Some(FALSE)}]

NextMenu ==
    \/ Tick
    \/ \E payload \in MenuItemInputs :
          ~MenuFull /\ create_menu_item(payload)
    \/ \E item_id \in ItemIdInputs, payload \in MenuEditInputs :
          update_menu_item(item_id, payload)
    \/ \E category \in Categories : list_menu(category)

MenuSpec == Init /\ [][NextMenu]_vars

\* ================================================================ claims
Abs(x) == IF x < 0 THEN -x ELSE x

\* The amount with 2 decimals nearest to x (thousandths), the even hundredth
\* on an exact tie: what "rounded to 2 decimal places" means, stated
\* without reference to Round2.
NearestHundredth(x) ==
    CHOOSE m \in {10 * k : k \in ((x \div 10) - 1)..((x \div 10) + 1)} :
        \/ Abs(m - x) < 5
        \/ Abs(m - x) = 5 /\ (m \div 10) % 2 = 0

RECURSIVE RequestSum(_)
RequestSum(items) ==
    IF items = <<>> THEN 0
    ELSE menuitem[Head(items).item_id].price * Head(items).quantity
         + RequestSum(Tail(items))

Unresolved(items) == {k \in DOMAIN items : items[k].item_id \notin DOMAIN menuitem}

FirstUnresolved(items) ==
    items[CHOOSE k \in Unresolved(items) : \A j \in Unresolved(items) : k <= j].item_id

Created == last.op = "create_order" /\ last.code = 200

\* C1: every create_order request with an item id that resolves to no menu
\* item fails with 400 InvalidItem naming the first unresolved id in input
\* order, and leaves the order and paymentrecord collections as they were.
C1_UnresolvedIsInvalidItem ==
    [][\A payload \in OrderCreateInputs(ItemIdInputs), fault \in Faults :
          (/\ last'.op = "create_order"
           /\ Unresolved(payload.items) # {}
           /\ create_order(payload, fault))
          => /\ last'.code = 400
             /\ last'.body = FirstUnresolved(payload.items)
             /\ order' = order
             /\ paymentrecord' = paymentrecord]_vars

\* The payment records that reference order oid, in collections ord/pay
RecordsOf(pay, oid) == {p \in DOMAIN pay : pay[p].order_id = oid}

\* C2: a successful create_order stores the order with status "pending";
\* for "cash" the response carries no payment, no PaymentRecord is written
\* and payment_status is "unpaid"; for "online" exactly one PaymentRecord is
\* written, for the new order, with provider "mock", no transaction id and
\* the order's subtotal as amount, and payment_status is "pending".
C2_SuccessfulOrderPayment ==
    [][(last'.op = "create_order" /\ last'.code = 200 /\ order' # order)
       => LET oid == last'.body.order_id
              method == last'.req.payment_method
          IN  /\ oid = Len(order) + 1
              /\ order' = Append(order, order'[oid])
              /\ order'[oid].payment_method = method
              /\ order'[oid].status = "pending"
              /\ method = "cash" =>
                    /\ last'.body.payment = None
                    /\ paymentrecord' = paymentrecord
                    /\ order'[oid].payment_status = "unpaid"
              /\ method = "online" =>
                    /\ Len(paymentrecord') = Len(paymentrecord) + 1
                    /\ paymentrecord' =
                          Append(paymentrecord, paymentrecord'[Len(paymentrecord')])
                    /\ RecordsOf(paymentrecord', oid) = {Len(paymentrecord')}
                    /\ LET rec == paymentrecord'[Len(paymentrecord')]
                       IN  /\ rec.provider = "mock"
                           /\ rec.transaction_id = None
                           /\ rec.amount = order'[oid].subtotal
                           /\ last'.body.payment # None
                           /\ last'.body.payment[1].id = Len(paymentrecord')
                    /\ order'[oid].payment_status = "pending"]_vars

\* A second order, paid online, was created after a cash order.
C2_Witness ==
    /\ Created
    /\ last.body.order_id = 2
    /\ order[1].payment_method = "cash"
    /\ order[2].payment_method = "online"
    /\ RecordsOf(paymentrecord, 2) # {}

\* What a successful create_order stored and returned, against the request
\* and the menu it was priced from; LineTotal(x) is what a line total must
\* be for the product x of price and quantity.
PricedAs(LineTotal(_)) ==
    Created =>
      LET o == order[last.body.order_id]
          items == last.req.items
          expected == NearestHundredth(RequestSum(items))
      IN  /\ o.subtotal = expected
          /\ last.body.subtotal = expected
          /\ Len(o.items) = Len(items)
          /\ \A k \in DOMAIN items :
                /\ o.items[k].item_id = items[k].item_id
                /\ o.items[k].quantity = items[k].quantity
                /\ o.items[k].price = menuitem[items[k].item_id].price
                /\ o.items[k].line_total =
                      LineTotal(menuitem[items[k].item_id].price * items[k].quantity)

Unrounded(x) == x

\* C4 (as claimed): for a request whose ids all resolve, the stored and
\* returned subtotal is the 2-decimal rounding of the sum of price x
\* quantity over the requested lines, and each stored line_total is the
\* 2-decimal rounding of its price x quantity.
C4_LineTotalsRounded == PricedAs(NearestHundredth)

\* C4 (amended): the subtotal is the 2-decimal rounding of the sum, and each
\* stored line_total is price x quantity exactly, not rounded.
C4_SubtotalRoundedLinesExact == PricedAs(Unrounded)

\* An order of two lines for the same item whose subtotal was changed by
\* the rounding.
C4_Witness ==
    /\ Created
    /\ Len(last.req.items) = 2
    /\ last.req.items[1].item_id = last.req.items[2].item_id
    /\ order[last.body.order_id].subtotal # RequestSum(last.req.items)

\* C3: once an order is stored, its items (item id, name, unit price,
\* quantity, line total) and its subtotal never change, whatever is done
\* afterwards (menu updates and creations, further orders, status and
\* payment transitions).
C3_SnapshotNeverChanges ==
    [][\A i \in DOMAIN order :
          /\ i \in DOMAIN order'
          /\ order'[i].items = order[i].items
          /\ order'[i].subtotal = order[i].subtotal]_vars

\* A menu price was updated after an order took a line at the old price.
C3_Witness ==
    /\ last.op = "update_menu_item"
    /\ last.code = 200
    /\ \E i \in DOMAIN order : \E k \in DOMAIN order[i].items :
          /\ order[i].items[k].item_id = last.req.item_id
          /\ order[i].items[k].price # menuitem[last.req.item_id].price
          /\ order[i].items[k].line_total =
                order[i].items[k].price * order[i].items[k].quantity

\* C5: set_order_status on a well-formed id that matches no order fails
\* with 404 and changes nothing; on an existing order every requested
\* status, the current one included, is accepted (200) and is the order's
\* status afterwards.
C5_AnyStatusAccepted ==
    [][(/\ last'.op = "set_order_status"
        /\ to_object_id_ok(last'.req.order_id)
        /\ set_order_status(last'.req.order_id, last'.req.status))
       => IF last'.req.order_id \in DOMAIN order
          THEN /\ last'.code = 200
               /\ order'[last'.req.order_id].status = last'.req.status
          ELSE /\ last'.code = 404
               /\ UNCHANGED <<menuitem, order, paymentrecord>>]_vars

WithoutStamp(doc) == [k \in (DOMAIN doc) \ {"updated_at"} |-> doc[k]]

Unstamped(coll) == [i \in DOMAIN coll |-> WithoutStamp(coll[i])]

\* C6: confirm_mock_payment on an existing order sets payment_status to
\* "paid" for "succeeded" and to "failed" for "failed", whatever the order's
\* payment_method and previous payment_status, so the status after a
\* sequence of calls is that of the last one; repeating the call just made
\* leaves every collection as it was (the updated_at stamp apart); on a
\* well-formed id that matches no order it fails with 404 and changes
\* nothing.
C6_ConfirmSetsPaymentStatus ==
    [][(/\ last'.op = "confirm_mock_payment"
        /\ to_object_id_ok(last'.req.order_id)
        /\ confirm_mock_payment(last'.req.order_id, last'.req.status))
       => IF last'.req.order_id \in DOMAIN order
          THEN /\ last'.code = 200
               /\ order'[last'.req.order_id].payment_status =
                     (IF last'.req.status = "succeeded" THEN "paid" ELSE "failed")
               /\ last'.body = order'[last'.req.order_id].payment_status
               /\ (last.op = "confirm_mock_payment" /\ last.req = last'.req) =>
                     /\ Unstamped(order') = Unstamped(order)
                     /\ UNCHANGED <<menuitem, paymentrecord, last>>
          ELSE /\ last'.code = 404
               /\ UNCHANGED <<menuitem, order, paymentrecord>>]_vars

\* A cash order whose payment had been confirmed is confirmed as failed.
C6_Witness ==
    /\ last.op = "confirm_mock_payment"
    /\ last.code = 200
    /\ last.req.status = "failed"
    /\ order[last.req.order_id].payment_method = "cash"
    /\ order[last.req.order_id].payment_status = "failed"
    /\ order[last.req.order_id].updated_at > 0

\* C7: in every reachable state every PaymentRecord references an existing
\* order whose payment_method is "online", no order is referenced by more
\* than one PaymentRecord, and no "cash" order is referenced by any.
C7_PaymentRecordsMatchOnlineOrders ==
    /\ \A p \in DOMAIN paymentrecord :
          /\ paymentrecord[p].order_id \in DOMAIN order
          /\ order[paymentrecord[p].order_id].payment_method = "online"
    /\ \A p, q \in DOMAIN paymentrecord :
          paymentrecord[p].order_id = paymentrecord[q].order_id => p = q
    /\ \A o \in DOMAIN order :
          order[o].payment_method = "cash" => RecordsOf(paymentrecord, o) = {}

\* A cash order and an online order with its record, after the cash
\* order's payment was confirmed.
C7_Witness ==
    /\ last.op = "confirm_mock_payment"
    /\ last.code = 200
    /\ order[last.req.order_id].payment_method = "cash"
    /\ \E o \in DOMAIN order : RecordsOf(paymentrecord, o) # {}

Orphaned(ord, pay, o) ==
    ord[o].payment_method = "online" /\ RecordsOf(pay, o) = {}

\* C9: an online order that no PaymentRecord references comes into being
\* only through a create_order that failed after writing the order (it is
\* the new order, with payment_status "pending"); a create_order that
\* returns leaves its order with its record; and no later operation gives
\* an orphaned order its record.
C9_OrphanOnlyByFailedWrite ==
    [][/\ \A o \in DOMAIN order :
             Orphaned(order, paymentrecord, o)
             => o \in DOMAIN order' /\ Orphaned(order', paymentrecord', o)
       /\ \A o \in DOMAIN order' :
             (/\ Orphaned(order', paymentrecord', o)
              /\ ~(o \in DOMAIN order /\ Orphaned(order, paymentrecord, o)))
             => /\ o \notin DOMAIN order
                /\ last'.op = "create_order"
                /\ last'.code = 500
                /\ order'[o].payment_status = "pending"
       /\ (last'.op = "create_order" /\ last'.code = 200 /\ order' # order)
             => ~Orphaned(order', paymentrecord', last'.body.order_id)]_vars

\* An orphaned online order, still orphaned after a later order was
\* created with its record.
C9_Witness ==
    /\ Len(order) = 2
    /\ Orphaned(order, paymentrecord, 1)
    /\ order[1].payment_status = "pending"
    /\ Created
    /\ RecordsOf(paymentrecord, 2) # {}

\* order'[i] is order[i] but for the fields in changed
SameBut(i, changed) ==
    /\ DOMAIN order'[i] = DOMAIN order[i]
    /\ \A k \in (DOMAIN order[i]) \ changed : order'[i][k] = order[i][k]

\* C10: confirm_mock_payment changes only payment_status and updated_at of
\* the order it names, set_order_status only status and updated_at of the
\* order it names; every other field, every other order, the menu and the
\* payment records stay as they were, so a PaymentRecord keeps the status
\* "pending" it was created with.
C10_TransitionFrame ==
    [][/\ (/\ last'.op = "confirm_mock_payment"
            /\ confirm_mock_payment(last'.req.order_id, last'.req.status))
           => /\ UNCHANGED <<menuitem, paymentrecord>>
              /\ DOMAIN order' = DOMAIN order
              /\ \A i \in DOMAIN order :
                    IF i = last'.req.order_id
                    THEN SameBut(i, {"payment_status", "updated_at"})
                    ELSE order'[i] = order[i]
       /\ (/\ last'.op = "set_order_status"
            /\ set_order_status(last'.req.order_id, last'.req.status))
           => /\ UNCHANGED <<menuitem, paymentrecord>>
              /\ DOMAIN order' = DOMAIN order
              /\ \A i \in DOMAIN order :
                    IF i = last'.req.order_id
                    THEN SameBut(i, {"status", "updated_at"})
                    ELSE order'[i] = order[i]
       /\ \A p \in DOMAIN paymentrecord' :
             paymentrecord'[p].status = "pending"]_vars

\* The first of two orders, online, confirmed as paid while its record
\* still says "pending" and its status had been moved before.
C10_Witness ==
    /\ last.op = "confirm_mock_payment"
    /\ last.code = 200
    /\ last.req.order_id = 1
    /\ Len(order) = 2
    /\ order[1].payment_status = "paid"
    /\ order[1].status = "served"
    /\ \E p \in RecordsOf(paymentrecord, 1) : paymentrecord[p].status = "pending"

\* last.body, a listing, is exactly the available menu items that
\* Wanted(item) selects: each once, as stored, in ascending order of name.
ListsExactly(Wanted(_)) ==
    LET items == last.body
        ids == {items[k]._id : k \in DOMAIN items}
    IN  /\ ids = {i \in DOMAIN menuitem : menuitem[i].is_available /\ Wanted(menuitem[i])}
        /\ Len(items) = Cardinality(ids)
        /\ \A k \in DOMAIN items :
              \A f \in DOMAIN menuitem[items[k]._id] :
                  items[k][f] = menuitem[items[k]._id][f]
        /\ \A j, k \in DOMAIN items : j < k => items[j].name <= items[k].name

AnyItem(item) == TRUE

InCategory(item) == item.category = last.req

\* C8 (as claimed): list_menu with a category filter returns exactly the
\* available items whose category equals the filter, ascending by name;
\* without a filter, exactly the available items, ascending by name.  (An
\* item made unavailable is thereby in no later listing.)
C8_FilterIsExact ==
    last.op = "list_menu" =>
        IF last.req # None THEN ListsExactly(InCategory) ELSE ListsExactly(AnyItem)

\* C8 (amended): as claimed for a filter that is not the empty string; the
\* empty string is no filter, and lists every available item.
C8_NonEmptyFilterIsExact ==
    last.op = "list_menu" =>
        IF last.req \notin {None, Some("")}
        THEN ListsExactly(InCategory) ELSE ListsExactly(AnyItem)

\* A listing by category that had to reorder the two stored items by name,
\* after an update of the menu.
C8_Witness ==
    /\ last.op = "list_menu"
    /\ last.req = Some("mains")
    /\ Len(last.body) = 2
    /\ last.body[1]._id = 2
    /\ last.body[1].name < last.body[2].name
    /\ \E i \in DOMAIN menuitem : menuitem[i].updated_at > 0

====
